---- MODULE Spec2Model ----
(***************************************************************************)
(* Position lifecycle of the SBIN webhook bot: the shared position record  *)
(* (config.current_position), the price-track row (price_tracker.py), the  *)
(* webhook entry handlers (app.py, trade_entry.py), the broker-position    *)
(* adoption (position_manager.py, app.auto_position_checker) and the       *)
(* monitor loop (monitor.py).                                              *)
(*                                                                         *)
(* Money is kept in units of 1/PCT_DEN rupee, so that every product with   *)
(* a percentage (SL_PERCENT, TSL_PERCENT, both in 1/PCT_DEN) is exact for  *)
(* whole-rupee prices.  Python None / a missing dict key is None.          *)
(***************************************************************************)
EXTENDS Integers, FiniteSets, Sequences, TLC

\* ------------------------------------------------------------------ bounds
\* last 5-minute block the clock reaches
MaxBlock == 1
\* concurrent trade_entry requests between their active check and their order
MaxInflight == 2

\* --------------------------------------------------------------- constants
PCT_DEN == 10000
\* SL_PERCENT = 0.01
SL_PERCENT == 100
\* TRADE_QUANTITY default
TRADE_QUANTITY == 1
\* a 30-minute block is 6 five-minute blocks
BLOCKS_PER_30MIN == 6
\* Python None (also: key absent from the dict) for numeric fields
None == -1
NoneStr == "None"

Rupees(n) == n * PCT_DEN

\* quotes the broker may return (last_price), whole rupees
Prices == {Rupees(99), Rupees(109), Rupees(110)}
\* "price" of a webhook payload
WebhookPrices == {Rupees(100)}
\* average_price of a non-flat broker position, fill price of an order
AvgPrices == {Rupees(100)}
\* TSL_PERCENT values the environment may configure: 0.005 (default), 0.0075
TslChoices == {50, 75}
\* net quantities the broker may report for an SBIN NRML position
BrokerQuantities == {0 - TRADE_QUANTITY, 0, TRADE_QUANTITY}
Symbols == {"SBIN25AUGFUT"}
\* sign of a MACD histogram value
HistValues == {0 - 1, 0, 1}

\* price * (factor / PCT_DEN) for a whole-rupee price (a multiple of PCT_DEN): exact,
\* and within the 32-bit integers of the model checker
Times(price, factor) == (price \div PCT_DEN) * factor

Max(a, b) == IF a >= b THEN a ELSE b
Min(a, b) == IF a <= b THEN a ELSE b

VARIABLES
    current_position,   \* config.current_position
    track,              \* row 1 of table tracking: highest_price, lowest_price
    TSL_PERCENT,        \* config.TSL_PERCENT, in 1/PCT_DEN
    now,                \* wall clock: 5-minute block and whether second < 10 of its first minute
    last5,              \* monitor._last_5min_check_timestamp
    last30,             \* monitor._last_30min_check_timestamp
    mpc,                \* where the monitor thread is in its cycle
    m,                  \* the monitor cycle's locals: sym, side, entry, initial_stop_loss, ltp
    pending,            \* trade_entry requests past their active check, before their order
    cpc,                \* where the auto-position checker thread is
    last,               \* the step just taken: operation, outcome, broker order
    exit_calls,         \* exit_position calls since the record was last populated (0, 1, 2 = more)
    shutdown_requested, \* app.shutdown_requested (threading.Event)
    market_open,        \* the exchange's session is on (a weekday, 9:15-15:30 IST)
    calls,              \* the external calls the step just taken made, in order
    fn,                 \* a function called on its own: its name, arguments and result
    bot                 \* trading_bot.py's process: LiveTradingBot and its position record

vars == <<current_position, track, TSL_PERCENT, now, last5, last30, mpc, m,
          pending, cpc, last, exit_calls, shutdown_requested, market_open, calls,
          fn, bot>>

\* ---------------------------------------------------------- position record
InactivePosition ==
    [active |-> FALSE, symbol |-> NoneStr, side |-> NoneStr, entry_price |-> 0,
     quantity |-> 0, stop_loss |-> None, effective_stop_loss |-> None]

\* current_position.get("effective_stop_loss", initial_stop_loss)
GetEffective(pos, dflt) ==
    IF pos.effective_stop_loss = None THEN dflt ELSE pos.effective_stop_loss

NoLocals == [sym |-> NoneStr, side |-> NoneStr, entry |-> 0, isl |-> None, ltp |-> None]

\* what the step just taken did: the operation, how it ended, and the broker
\* order it sent ("none", "ok" = accepted, "failed" = sent and refused)
Event(op, outcome, order) == [op |-> op, outcome |-> outcome, order |-> order]

\* no function has been called on its own
NoCall == [name |-> "none"]

\* ------------------------------------------ trading_bot.py, before run()
\* config.current_position as trading_bot.py imports it: inactive; initial_sl
\* and effective_sl are keys the bot adds itself
BotNoPosition ==
    [active |-> FALSE, side |-> NoneStr, quantity |-> 0, entry_price |-> 0,
     initial_sl |-> None, effective_sl |-> None]

\* the broker's side of the pending order: what was asked for and where it
\* stands (the bot itself keeps only the id)
NoBrokerOrder == [type |-> NoneStr, purpose |-> NoneStr, status |-> NoneStr]

\* LiveTradingBot.__init__ (lines 50-60): no order id, no fill price
BotInit ==
    [pc |-> "start", LIVE_MODE |-> FALSE, side_key |-> FALSE,
     order_id |-> NoneStr, last_order_price |-> None, order |-> NoBrokerOrder,
     current_position |-> BotNoPosition, placed |-> <<>>]

Init ==
    /\ current_position = InactivePosition
    /\ track = [highest_price |-> None, lowest_price |-> None]
    /\ TSL_PERCENT \in TslChoices
    /\ now = [block |-> 0, window |-> TRUE]
    /\ last5 = None
    /\ last30 = None
    /\ mpc = "top"
    /\ m = NoLocals
    /\ pending = 0
    /\ cpc = "check"
    /\ last = Event("init", "none", "none")
    /\ exit_calls = 0
    /\ shutdown_requested = FALSE
    /\ market_open = TRUE
    /\ calls = <<>>
    /\ fn = NoCall
    /\ bot = BotInit

\* ------------------------------------------------------------------- clock
\* Time passes between any two steps (sleeps, blocking I/O): within the block the
\* first ten seconds end, or a later block starts, inside or past its window.
Tick ==
    /\ \E t \in [block : 0..MaxBlock, window : BOOLEAN] :
          /\ \/ t.block > now.block
             \/ t.block = now.block /\ now.window /\ ~t.window
          /\ now' = t
    /\ last' = Event("tick", "none", "none")
    /\ calls' = <<>>
    /\ UNCHANGED <<current_position, track, TSL_PERCENT, last5, last30, mpc, m,
                   pending, cpc, exit_calls, shutdown_requested, market_open, fn, bot>>

\* trading_bot.py 238-259: the trading session as _is_market_open computes it
\* (Monday to Friday, 9:15 to 15:30 IST) begins or ends.
MarketHours ==
    /\ market_open' = ~market_open
    /\ last' = Event("market", IF market_open THEN "closed" ELSE "opened", "none")
    /\ calls' = <<>>
    /\ UNCHANGED <<current_position, track, TSL_PERCENT, now, last5, last30, mpc, m,
                   pending, cpc, exit_calls, shutdown_requested, fn, bot>>

\* ------------------------------------------------------------- entry: order
\* order_manager.place_order is not part of the sources at hand. It is modelled
\* from the entry controller's confirmation step (spec 4.2) and from the comment
\* at its call in app.webhook ("will also update current_position and initialize
\* price_tracker"): initial stop = reference price * (1 -/+ SL_PERCENT), a fully
\* populated active record with effective stop = initial stop, and the price
\* track set to the reference price.
InitialStop(side, price) ==
    IF side = "LONG" THEN Times(price, PCT_DEN - SL_PERCENT)
                     ELSE Times(price, PCT_DEN + SL_PERCENT)

PlacedPosition(symbol, side, price) ==
    [active |-> TRUE, symbol |-> symbol, side |-> side, entry_price |-> price,
     quantity |-> TRADE_QUANTITY, stop_loss |-> InitialStop(side, price),
     effective_stop_loss |-> InitialStop(side, price)]

\* place_order(symbol, direction, price): order_ok is the broker accepting the order
PlaceOrder(symbol, side, price, order_ok) ==
    IF order_ok
    THEN /\ current_position' = PlacedPosition(symbol, side, price)
         /\ track' = [highest_price |-> price, lowest_price |-> price]
         /\ exit_calls' = 0
    ELSE UNCHANGED <<current_position, track, exit_calls>>

\* ------------------------------------------------------- histogram.py 92-97
\* Seeded fault: a previous value of exactly zero does not count as a crossing.
CrossToGreenStrict(prev_hist, latest_hist) == latest_hist > 0 /\ prev_hist < 0

CrossToGreen(prev_hist, latest_hist) == latest_hist > 0 /\ prev_hist <= 0
CrossToRed(prev_hist, latest_hist) == latest_hist < 0 /\ prev_hist >= 0

\* ------------------------------------------------------------ app.webhook
\* Seeded fault: the gate looks at the histogram's sign and forgets the crossing.
FlipConfirmedSignOnly(direction, hist, cross_to_green, cross_to_red) ==
    /\ ~(direction = "LONG" /\ ~(hist > 0))
    /\ ~(direction = "SHORT" /\ ~(hist < 0))

\* app.py 226-231: the flip the direction needs
FlipConfirmed(direction, hist, cross_to_green, cross_to_red) ==
    /\ ~(direction = "LONG" /\ ~(hist > 0 /\ cross_to_green))
    /\ ~(direction = "SHORT" /\ ~(hist < 0 /\ cross_to_red))

\* Seeded fault: the direction is looked at only after the symbol and the
\* histogram have been fetched.
WebhookRejectedLateDirection ==
    /\ \/ /\ \E outcome \in {"bad_json", "unauthorized", "bad_value", "test"} :
                last' = Event("webhook", outcome, "none")
          /\ calls' = <<>>
       \/ /\ last' = Event("webhook", "symbol_failed", "none")
          /\ calls' = <<"resolve_sbin_future">>
       \/ /\ \E outcome \in {"histogram_failed", "invalid_direction"} :
                last' = Event("webhook", outcome, "none")
          /\ calls' = <<"resolve_sbin_future", "fetch_histogram">>
    /\ UNCHANGED <<current_position, track, exit_calls>>

\* Seeded fault: the secret is compared only after the symbol has been resolved
\* and the histogram fetched.
WebhookRejectedLateSecret ==
    /\ \/ /\ \E outcome \in {"bad_json", "bad_value", "test", "invalid_direction"} :
                last' = Event("webhook", outcome, "none")
          /\ calls' = <<>>
       \/ /\ last' = Event("webhook", "symbol_failed", "none")
          /\ calls' = <<"resolve_sbin_future">>
       \/ /\ \E outcome \in {"histogram_failed", "unauthorized"} :
                last' = Event("webhook", outcome, "none")
          /\ calls' = <<"resolve_sbin_future", "fetch_histogram">>
    /\ UNCHANGED <<current_position, track, exit_calls>>

\* A request that ends before the order: bad JSON, wrong secret, bad price,
\* TEST, unknown direction, failed symbol resolution, failed histogram fetch.
WebhookRejected ==
    /\ \/ /\ \E outcome \in {"bad_json", "unauthorized", "bad_value", "test",
                             "invalid_direction"} :
                last' = Event("webhook", outcome, "none")
          /\ calls' = <<>>
       \/ /\ last' = Event("webhook", "symbol_failed", "none")
          /\ calls' = <<"resolve_sbin_future">>
       \/ /\ last' = Event("webhook", "histogram_failed", "none")
          /\ calls' = <<"resolve_sbin_future", "fetch_histogram">>
    /\ UNCHANGED <<current_position, track, exit_calls>>

\* A request with the right secret, direction LONG or SHORT, a resolved symbol
\* and a fetched histogram (app.py 221-241): the flip gate, then place_order.
WebhookSignalWith(direction, price, symbol, prev_hist, hist, order_ok) ==
    IF ~FlipConfirmed(direction, hist, CrossToGreen(prev_hist, hist),
                      CrossToRed(prev_hist, hist))
    THEN /\ last' = Event("webhook", "ignored", "none")
         /\ calls' = <<"resolve_sbin_future", "fetch_histogram">>
         /\ UNCHANGED <<current_position, track, exit_calls>>
    ELSE /\ PlaceOrder(symbol, direction, price, order_ok)
         /\ calls' = <<"resolve_sbin_future", "fetch_histogram", "place_order">>
         /\ last' = Event("webhook", IF order_ok THEN "success" ELSE "order_failed",
                          IF order_ok THEN "ok" ELSE "failed")

WebhookSignal ==
    \E direction \in {"LONG", "SHORT"}, price \in WebhookPrices, symbol \in Symbols,
       prev_hist \in HistValues, hist \in HistValues, order_ok \in BOOLEAN :
        WebhookSignalWith(direction, price, symbol, prev_hist, hist, order_ok)

Webhook ==
    /\ WebhookRejected \/ WebhookSignal
    /\ UNCHANGED <<TSL_PERCENT, now, last5, last30, mpc, m, pending, cpc,
                   shutdown_requested, market_open, fn, bot>>

\* ------------------------------------------- trade_entry.handle_trade_webhook
\* lines 30-46: password, payload fields, then the active check
TradeWebhookCheck ==
    /\ \/ \E outcome \in {"unauthorized", "missing_fields"} :
             /\ last' = Event("trade_check", outcome, "none")
             /\ UNCHANGED pending
       \/ /\ current_position.active
          /\ last' = Event("trade_check", "already_active", "none")
          /\ UNCHANGED pending
       \/ /\ ~current_position.active
          /\ pending < MaxInflight
          /\ pending' = pending + 1
          /\ last' = Event("trade_check", "passed", "none")
    /\ calls' = <<>>
    /\ UNCHANGED <<current_position, track, TSL_PERCENT, now, last5, last30, mpc, m,
                   cpc, exit_calls, shutdown_requested, market_open, fn, bot>>

\* macd_indicator.py 86-103 and 120-137, on the signs of (macd - signal)
IsBullishCrossover(enough_bars, prev_diff, cur_diff) ==
    enough_bars /\ prev_diff <= 0 /\ cur_diff > 0
IsBearishCrossover(enough_bars, prev_diff, cur_diff) ==
    enough_bars /\ prev_diff >= 0 /\ cur_diff < 0

\* lines 77-91: the crossover on a non-empty history (enough_bars: at least 35
\* closing prices), then place_order(symbol, side); the order's reference price
\* is the fill price the broker reports
TradeSignalWith(enough_bars, prev_diff, cur_diff, symbol, price, order_ok) ==
    IF IsBullishCrossover(enough_bars, prev_diff, cur_diff)
    THEN /\ PlaceOrder(symbol, "LONG", price, order_ok)
         /\ calls' = <<"resolve_current_month_symbol", "resolve_token",
                       "historical_data", "place_order">>
         /\ last' = Event("trade_place", "long_signal",
                          IF order_ok THEN "ok" ELSE "failed")
    ELSE IF IsBearishCrossover(enough_bars, prev_diff, cur_diff)
    THEN /\ PlaceOrder(symbol, "SHORT", price, order_ok)
         /\ calls' = <<"resolve_current_month_symbol", "resolve_token",
                       "historical_data", "place_order">>
         /\ last' = Event("trade_place", "short_signal",
                          IF order_ok THEN "ok" ELSE "failed")
    ELSE /\ last' = Event("trade_place", "no_signal", "none")
         /\ calls' = <<"resolve_current_month_symbol", "resolve_token",
                       "historical_data">>
         /\ UNCHANGED <<current_position, track, exit_calls>>

\* lines 48-75: resolution, token, history (each may fail), then the crossover
TradeWebhookPlace ==
    /\ pending > 0
    /\ pending' = pending - 1
    /\ \/ /\ \/ /\ last' = Event("trade_place", "symbol_failed", "none")
                /\ calls' = <<"resolve_current_month_symbol">>
             \/ /\ last' = Event("trade_place", "token_failed", "none")
                /\ calls' = <<"resolve_current_month_symbol", "resolve_token">>
             \/ /\ \E outcome \in {"no_history", "history_failed"} :
                      last' = Event("trade_place", outcome, "none")
                /\ calls' = <<"resolve_current_month_symbol", "resolve_token",
                              "historical_data">>
          /\ UNCHANGED <<current_position, track, exit_calls>>
       \/ \E enough_bars \in BOOLEAN, prev_diff \in HistValues, cur_diff \in HistValues,
             symbol \in Symbols, price \in AvgPrices, order_ok \in BOOLEAN :
             TradeSignalWith(enough_bars, prev_diff, cur_diff, symbol, price, order_ok)
    /\ UNCHANGED <<TSL_PERCENT, now, last5, last30, mpc, m, cpc,
                   shutdown_requested, market_open, fn, bot>>

\* ------------------------------------------- position_manager / checker thread
\* position_manager.py 15-28; dict.update leaves effective_stop_loss as it was
AdoptedPosition(pos, symbol, quantity, avg_price) ==
    LET side == IF quantity > 0 THEN "LONG" ELSE "SHORT"
        stop_loss == IF side = "LONG"
                     THEN Times(avg_price, PCT_DEN - SL_PERCENT)
                     ELSE Times(avg_price, PCT_DEN + SL_PERCENT)
    IN [pos EXCEPT !.active = TRUE, !.symbol = symbol, !.side = side,
                   !.entry_price = avg_price, !.stop_loss = stop_loss,
                   !.quantity = quantity]

\* app.py 88-97: the top of the checker's loop. Once shutdown is requested the
\* thread stops; otherwise it looks at the record, then goes to the broker
CheckerCheck ==
    /\ cpc = "check"
    /\ IF shutdown_requested
       THEN /\ cpc' = "stopped"
            /\ last' = Event("checker_check", "stopped", "none")
       ELSE /\ cpc' = IF ~current_position.active THEN "fetch" ELSE "check"
            /\ last' = Event("checker_check",
                             IF current_position.active THEN "skipped" ELSE "fetching",
                             "none")
    /\ calls' = <<>>
    /\ UNCHANGED <<current_position, track, TSL_PERCENT, now, last5, last30, mpc, m,
                   pending, exit_calls, shutdown_requested, market_open, fn, bot>>

\* app.py 31-34: SIGINT or SIGTERM arrives
HandleShutdownSignal ==
    /\ shutdown_requested' = TRUE
    /\ last' = Event("signal", "shutdown_requested", "none")
    /\ calls' = <<>>
    /\ UNCHANGED <<current_position, track, TSL_PERCENT, now, last5, last30, mpc, m,
                   pending, cpc, exit_calls, market_open, fn, bot>>

\* fetch_existing_position: the first SBIN NRML row of kite.positions()['net'];
\* a flat row (quantity 0) carries average_price 0
CheckerFetch ==
    /\ cpc = "fetch"
    /\ cpc' = "check"
    /\ \/ /\ \E outcome \in {"broker_error", "not_found"} :
                last' = Event("checker_fetch", outcome, "none")
          /\ calls' = <<"positions">>
          /\ UNCHANGED <<current_position, exit_calls>>
       \/ \E symbol \in Symbols, quantity \in BrokerQuantities, avg \in AvgPrices :
             /\ current_position' =
                   AdoptedPosition(current_position, symbol, quantity,
                                   IF quantity = 0 THEN 0 ELSE avg)
             /\ exit_calls' = 0
             /\ calls' = <<"positions", "ltp">>
             /\ last' = Event("checker_fetch", "adopted", "none")
    /\ UNCHANGED <<track, TSL_PERCENT, now, last5, last30, mpc, m, pending,
                   shutdown_requested, market_open, fn, bot>>

\* ------------------------------------------------------------ exit controller
\* order_manager.exit_position is not part of the sources at hand. It is modelled
\* from spec 4.4: with no active position (or zero quantity) the record is reset
\* and no order is sent; otherwise a market order in the opposite direction is
\* sent, and whether or not the broker accepts it the record is cleared.
\* Seeded fault: the closing order is sent without looking at the record.
ExitOrderUnguarded(pos, order_ok) == IF order_ok THEN "ok" ELSE "failed"

ExitOrder(pos, order_ok) ==
    IF ~pos.active \/ pos.quantity = 0 THEN "none"
    ELSE IF order_ok THEN "ok" ELSE "failed"

ExitPosition ==
    /\ current_position' = InactivePosition
    /\ exit_calls' = Min(exit_calls + 1, 2)

\* ------------------------------------------------------------------ monitor
\* Seeded fault: the mark of the last block checked is not looked at.
Is5MinBoundaryEveryCycle == now.window

\* monitor.py 46-60
Is5MinBoundary == now.window /\ last5 # now.block
\* monitor.py 30-44
Is30MinBoundary ==
    /\ now.window
    /\ now.block % BLOCKS_PER_30MIN = 0
    /\ last30 # now.block \div BLOCKS_PER_30MIN

\* monitor.py 132-135
TrackedHigh(entry) == IF track.highest_price = None THEN entry ELSE track.highest_price
TrackedLow(entry) == IF track.lowest_price = None THEN entry ELSE track.lowest_price

\* Seeded fault: the trail is not capped by the current price.
LongStopUncapped(initial_stop_loss, high, ltp) ==
    Max(initial_stop_loss, Times(high, PCT_DEN - TSL_PERCENT))

\* monitor.py 142, 147, 153
NewHigh(entry, ltp) == Max(TrackedHigh(entry), ltp)
LongStop(initial_stop_loss, high, ltp) ==
    Max(initial_stop_loss, Min(Times(high, PCT_DEN - TSL_PERCENT), ltp))
\* Seeded fault: the cap by the current price is applied last, after the cap by
\* the initial stop.
ShortStopPriceCapLast(initial_stop_loss, low, ltp) ==
    Max(Min(initial_stop_loss, Times(low, PCT_DEN + TSL_PERCENT)), ltp)

\* Seeded fault: the trail of a SHORT is not capped by the current price.
ShortStopUncapped(initial_stop_loss, low, ltp) ==
    Min(initial_stop_loss, Times(low, PCT_DEN + TSL_PERCENT))

\* monitor.py 169, 174, 180
NewLow(entry, ltp) == Min(TrackedLow(entry), ltp)
ShortStop(initial_stop_loss, low, ltp) ==
    Min(initial_stop_loss, Max(Times(low, PCT_DEN + TSL_PERCENT), ltp))

\* monitor.py 160, 187
StopHit(side, ltp, effective_stop_loss) ==
    \/ side = "LONG" /\ ltp <= effective_stop_loss
    \/ side = "SHORT" /\ ltp >= effective_stop_loss

\* Seeded fault: a quote that cannot be fetched is treated as a reason to exit.
MonitorBeginExitOnFail ==
    /\ mpc = "top"
    /\ IF ~current_position.active
       THEN /\ last' = Event("monitor", "idle", "none")
            /\ UNCHANGED <<mpc, m, current_position, exit_calls>>
       ELSE \/ /\ \E outcome \in {"ltp_malformed", "ltp_failed"}, order_ok \in BOOLEAN :
                     last' = Event("monitor", outcome, ExitOrder(current_position, order_ok))
               /\ ExitPosition
               /\ UNCHANGED <<mpc, m>>
            \/ /\ \E ltp \in Prices :
                     /\ m' = [sym |-> current_position.symbol,
                              side |-> current_position.side,
                              entry |-> current_position.entry_price,
                              isl |-> current_position.stop_loss,
                              ltp |-> ltp]
                     /\ mpc' = "stop"
                     /\ last' = Event("monitor", "ltp_ok", "none")
               /\ UNCHANGED <<current_position, exit_calls>>
    /\ calls' = IF current_position.active THEN <<"ltp">> ELSE <<>>
    /\ UNCHANGED <<track, TSL_PERCENT, now, last5, last30, pending, cpc,
                   shutdown_requested, market_open, fn, bot>>

\* Seeded fault: the quote is fetched before the record is looked at.
MonitorBeginQuoteFirst ==
    /\ mpc = "top"
    /\ IF ~current_position.active
       THEN /\ last' = Event("monitor", "idle", "none")
            /\ UNCHANGED <<mpc, m>>
       ELSE \/ /\ \E outcome \in {"ltp_malformed", "ltp_failed"} :
                     last' = Event("monitor", outcome, "none")
               /\ UNCHANGED <<mpc, m>>
            \/ \E ltp \in Prices :
                  /\ m' = [sym |-> current_position.symbol,
                           side |-> current_position.side,
                           entry |-> current_position.entry_price,
                           isl |-> current_position.stop_loss,
                           ltp |-> ltp]
                  /\ mpc' = "stop"
                  /\ last' = Event("monitor", "ltp_ok", "none")
    /\ calls' = <<"ltp">>
    /\ UNCHANGED <<current_position, track, TSL_PERCENT, now, last5, last30,
                   pending, cpc, exit_calls, shutdown_requested, market_open, fn, bot>>

\* monitor.py 81-110: the top of a cycle. Without an active position the loop
\* sleeps and starts over; with one it reads the record into locals and fetches
\* the last traded price, and a failed or malformed quote ends the cycle.
MonitorBegin ==
    /\ mpc = "top"
    /\ IF ~current_position.active
       THEN /\ last' = Event("monitor", "idle", "none")
            /\ UNCHANGED <<mpc, m>>
       ELSE \/ /\ \E outcome \in {"ltp_malformed", "ltp_failed"} :
                     last' = Event("monitor", outcome, "none")
               /\ UNCHANGED <<mpc, m>>
            \/ \E ltp \in Prices :
                  /\ m' = [sym |-> current_position.symbol,
                           side |-> current_position.side,
                           entry |-> current_position.entry_price,
                           isl |-> current_position.stop_loss,
                           ltp |-> ltp]
                  /\ mpc' = "stop"
                  /\ last' = Event("monitor", "ltp_ok", "none")
    /\ calls' = IF current_position.active THEN <<"ltp">> ELSE <<>>
    /\ UNCHANGED <<current_position, track, TSL_PERCENT, now, last5, last30,
                   pending, cpc, exit_calls, shutdown_requested, market_open, fn, bot>>

\* Seeded fault: the backup is attempted before the price track is saved.
StopCheckCallsUploadFirst(uploaded) ==
    <<"load_price_track", IF uploaded THEN "upload_file" ELSE "upload_file_failed",
      "save_price_track">>

\* monitor.py 129, 143-144 (170-171): the calls of a stop check in their order;
\* gdrive_sync.upload_file returns False when the upload fails
StopCheckCalls(uploaded) ==
    <<"load_price_track", "save_price_track",
      IF uploaded THEN "upload_file" ELSE "upload_file_failed">>

\* Seeded fault: a failed upload raises into the cycle's except clause, after
\* the price track was saved and before the stop is recomputed.
MonitorStopCheckUploadFatal ==
    /\ mpc = "stop"
    /\ IF ~Is5MinBoundary
       THEN /\ mpc' = "hist"
            /\ last' = Event("stop_check", "no_boundary", "none")
            /\ calls' = <<>>
            /\ UNCHANGED <<current_position, track, last5, m>>
       ELSE /\ last5' = now.block
            /\ \/ /\ m.side \in {"LONG", "SHORT"}
                  /\ mpc' = "top"
                  /\ m' = NoLocals
                  /\ last' = Event("stop_check", "track_failed", "none")
                  /\ \E failed \in {"load_price_track", "save_price_track"} :
                        calls' = IF failed = "load_price_track"
                                 THEN <<"load_price_track">>
                                 ELSE <<"load_price_track", "save_price_track">>
                  /\ UNCHANGED <<current_position, track>>
               \/ /\ m.side \in {"LONG", "SHORT"}
                  /\ track' = IF m.side = "LONG"
                              THEN [track EXCEPT !.highest_price = NewHigh(m.entry, m.ltp)]
                              ELSE [track EXCEPT !.lowest_price = NewLow(m.entry, m.ltp)]
                  /\ \E uploaded \in BOOLEAN :
                        /\ calls' = StopCheckCalls(uploaded)
                        /\ IF uploaded
                           THEN LET stop == IF m.side = "LONG"
                                            THEN LongStop(m.isl, track'.highest_price, m.ltp)
                                            ELSE ShortStop(m.isl, track'.lowest_price, m.ltp)
                                IN /\ current_position' =
                                        [current_position EXCEPT
                                            !.effective_stop_loss = stop]
                                   /\ mpc' = IF StopHit(m.side, m.ltp, stop)
                                             THEN "exit" ELSE "hist"
                                   /\ last' = Event("stop_check",
                                                    IF StopHit(m.side, m.ltp, stop)
                                                    THEN "hit" ELSE "held", "none")
                                   /\ UNCHANGED m
                           ELSE /\ mpc' = "top"
                                /\ m' = NoLocals
                                /\ last' = Event("stop_check", "upload_raised", "none")
                                /\ UNCHANGED current_position
               \/ /\ m.side \notin {"LONG", "SHORT"}
                  /\ mpc' = "hist"
                  /\ last' = Event("stop_check", "no_side", "none")
                  /\ calls' = <<"load_price_track">>
                  /\ UNCHANGED <<current_position, track, m>>
    /\ UNCHANGED <<TSL_PERCENT, now, last30, pending, cpc, exit_calls,
                   shutdown_requested, market_open, fn, bot>>

\* monitor.py 124-192: the stop check of a 5-minute boundary. The tracked high
\* (low) is saved, the new effective stop is written to the record, and a hit
\* sends the cycle to exit_position. A failing save_price_track raises into the
\* cycle's except clause before anything is written.
MonitorStopCheck ==
    /\ mpc = "stop"
    /\ IF ~Is5MinBoundary
       THEN /\ mpc' = "hist"
            /\ last' = Event("stop_check", "no_boundary", "none")
            /\ calls' = <<>>
            /\ UNCHANGED <<current_position, track, last5, m>>
       ELSE /\ last5' = now.block
            /\ \/ /\ m.side \in {"LONG", "SHORT"}
                  /\ mpc' = "top"
                  /\ m' = NoLocals
                  /\ last' = Event("stop_check", "track_failed", "none")
                  /\ \E failed \in {"load_price_track", "save_price_track"} :
                        calls' = IF failed = "load_price_track"
                                 THEN <<"load_price_track">>
                                 ELSE <<"load_price_track", "save_price_track">>
                  /\ UNCHANGED <<current_position, track>>
               \/ /\ m.side = "LONG"
                  /\ LET high == NewHigh(m.entry, m.ltp)
                         stop == LongStop(m.isl, high, m.ltp)
                     IN /\ track' = [track EXCEPT !.highest_price = high]
                        /\ current_position' =
                              [current_position EXCEPT !.effective_stop_loss = stop]
                        /\ mpc' = IF StopHit("LONG", m.ltp, stop) THEN "exit" ELSE "hist"
                        /\ last' = Event("stop_check",
                                         IF StopHit("LONG", m.ltp, stop) THEN "hit" ELSE "held",
                                         "none")
                  /\ \E uploaded \in BOOLEAN : calls' = StopCheckCalls(uploaded)
                  /\ UNCHANGED m
               \/ /\ m.side = "SHORT"
                  /\ LET low == NewLow(m.entry, m.ltp)
                         stop == ShortStop(m.isl, low, m.ltp)
                     IN /\ track' = [track EXCEPT !.lowest_price = low]
                        /\ current_position' =
                              [current_position EXCEPT !.effective_stop_loss = stop]
                        /\ mpc' = IF StopHit("SHORT", m.ltp, stop) THEN "exit" ELSE "hist"
                        /\ last' = Event("stop_check",
                                         IF StopHit("SHORT", m.ltp, stop) THEN "hit" ELSE "held",
                                         "none")
                  /\ \E uploaded \in BOOLEAN : calls' = StopCheckCalls(uploaded)
                  /\ UNCHANGED m
               \/ /\ m.side \notin {"LONG", "SHORT"}
                  /\ mpc' = "hist"
                  /\ last' = Event("stop_check", "no_side", "none")
                  /\ calls' = <<"load_price_track">>
                  /\ UNCHANGED <<current_position, track, m>>
    /\ UNCHANGED <<TSL_PERCENT, now, last30, pending, cpc, exit_calls,
                   shutdown_requested, market_open, fn, bot>>

\* Seeded fault: the `continue` after exit_position() is missing, and the cycle
\* goes on to the histogram check with the locals it read.
MonitorExitNoContinue ==
    /\ mpc = "exit"
    /\ \E order_ok \in BOOLEAN :
          last' = Event("monitor_exit", "stop", ExitOrder(current_position, order_ok))
    /\ ExitPosition
    /\ mpc' = "hist"
    /\ calls' = <<"exit_position">>
    /\ UNCHANGED <<m, track, TSL_PERCENT, now, last5, last30, pending, cpc,
                   shutdown_requested, market_open, fn, bot>>

\* Seeded fault: the record is cleared only when the closing order went through.
MonitorExitKeepOnFailure ==
    /\ mpc = "exit"
    /\ \E order_ok \in BOOLEAN :
          /\ last' = Event("monitor_exit", "stop", ExitOrder(current_position, order_ok))
          /\ IF ExitOrder(current_position, order_ok) = "failed"
             THEN UNCHANGED <<current_position, exit_calls>>
             ELSE ExitPosition
    /\ mpc' = "top"
    /\ m' = NoLocals
    /\ calls' = <<"exit_position">>
    /\ UNCHANGED <<track, TSL_PERCENT, now, last5, last30, pending, cpc,
                   shutdown_requested, market_open, fn, bot>>

\* monitor.py 162-165 and 189-192: exit_position(), then continue
MonitorExit ==
    /\ mpc = "exit"
    /\ \E order_ok \in BOOLEAN :
          last' = Event("monitor_exit", "stop", ExitOrder(current_position, order_ok))
    /\ ExitPosition
    /\ mpc' = "top"
    /\ m' = NoLocals
    /\ calls' = <<"exit_position">>
    /\ UNCHANGED <<track, TSL_PERCENT, now, last5, last30, pending, cpc,
                   shutdown_requested, market_open, fn, bot>>

\* Seeded fault: the two crossings are swapped, so that a crossing in the
\* position's own direction exits.
HistFlipWithSwapped(prev_hist, hist, order_ok) ==
    IF \/ m.side = "LONG" /\ CrossToGreen(prev_hist, hist)
       \/ m.side = "SHORT" /\ CrossToRed(prev_hist, hist)
    THEN /\ ExitPosition
         /\ calls' = <<"fetch_histogram", "exit_position">>
         /\ last' = Event("hist_check", "flip_exit",
                          ExitOrder(current_position, order_ok))
    ELSE /\ last' = Event("hist_check", "no_flip", "none")
         /\ calls' = <<"fetch_histogram">>
         /\ UNCHANGED <<current_position, exit_calls>>

\* monitor.py 198-206: the decision on a fetched histogram (status "ok")
HistFlipWith(prev_hist, hist, order_ok) ==
    IF \/ m.side = "LONG" /\ CrossToRed(prev_hist, hist)
       \/ m.side = "SHORT" /\ CrossToGreen(prev_hist, hist)
    THEN /\ ExitPosition
         /\ calls' = <<"fetch_histogram", "exit_position">>
         /\ last' = Event("hist_check", "flip_exit",
                          ExitOrder(current_position, order_ok))
    ELSE /\ last' = Event("hist_check", "no_flip", "none")
         /\ calls' = <<"fetch_histogram">>
         /\ UNCHANGED <<current_position, exit_calls>>

\* Seeded fault: a histogram that cannot be fetched is treated as a flip.
MonitorHistCheckExitOnFail ==
    /\ mpc = "hist"
    /\ mpc' = "top"
    /\ m' = NoLocals
    /\ IF ~Is30MinBoundary
       THEN /\ last' = Event("hist_check", "no_boundary", "none")
            /\ calls' = <<>>
            /\ UNCHANGED <<current_position, last30, exit_calls>>
       ELSE /\ last30' = now.block \div BLOCKS_PER_30MIN
            /\ \/ /\ \E order_ok \in BOOLEAN :
                        last' = Event("hist_check", "fetch_failed",
                                      ExitOrder(current_position, order_ok))
                  /\ calls' = <<"fetch_histogram", "exit_position">>
                  /\ ExitPosition
               \/ \E prev_hist \in HistValues, hist \in HistValues, order_ok \in BOOLEAN :
                     HistFlipWith(prev_hist, hist, order_ok)
    /\ UNCHANGED <<track, TSL_PERCENT, now, last5, pending, cpc,
                   shutdown_requested, market_open, fn, bot>>

\* Seeded fault: the exception of a failed histogram fetch is not caught and
\* ends the monitor thread.
MonitorHistCheckDiesOnFail ==
    /\ mpc = "hist"
    /\ m' = NoLocals
    /\ IF ~Is30MinBoundary
       THEN /\ mpc' = "top"
            /\ last' = Event("hist_check", "no_boundary", "none")
            /\ calls' = <<>>
            /\ UNCHANGED <<current_position, last30, exit_calls>>
       ELSE /\ last30' = now.block \div BLOCKS_PER_30MIN
            /\ \/ /\ mpc' = "dead"
                  /\ last' = Event("hist_check", "fetch_failed", "none")
                  /\ calls' = <<"fetch_histogram">>
                  /\ UNCHANGED <<current_position, exit_calls>>
               \/ /\ mpc' = "top"
                  /\ \E prev_hist \in HistValues, hist \in HistValues,
                        order_ok \in BOOLEAN :
                        HistFlipWith(prev_hist, hist, order_ok)
    /\ UNCHANGED <<track, TSL_PERCENT, now, last5, pending, cpc,
                   shutdown_requested, market_open, fn, bot>>

\* monitor.py 195-206: the histogram flip check of a 30-minute boundary; a fetch
\* that did not end "ok" (no candles, too few, an exception inside) is skipped
MonitorHistCheck ==
    /\ mpc = "hist"
    /\ mpc' = "top"
    /\ m' = NoLocals
    /\ IF ~Is30MinBoundary
       THEN /\ last' = Event("hist_check", "no_boundary", "none")
            /\ calls' = <<>>
            /\ UNCHANGED <<current_position, last30, exit_calls>>
       ELSE /\ last30' = now.block \div BLOCKS_PER_30MIN
            /\ \/ /\ last' = Event("hist_check", "fetch_failed", "none")
                  /\ calls' = <<"fetch_histogram">>
                  /\ UNCHANGED <<current_position, exit_calls>>
               \/ \E prev_hist \in HistValues, hist \in HistValues, order_ok \in BOOLEAN :
                     HistFlipWith(prev_hist, hist, order_ok)
    /\ UNCHANGED <<track, TSL_PERCENT, now, last5, pending, cpc,
                   shutdown_requested, market_open, fn, bot>>

\* ------------------------------------------------------------ specifications
\* The deployment of app.py: the webhook route, the auto-position checker thread
\* and the monitor thread, under a running clock.
Next ==
    \/ Tick
    \/ Webhook
    \/ CheckerCheck
    \/ CheckerFetch
    \/ MonitorBegin
    \/ MonitorStopCheck
    \/ MonitorExit
    \/ MonitorHistCheck

Spec == Init /\ [][Next]_vars

\* The entry handler of trade_entry.py (requests may overlap) with the monitor.
NextTradeEntry ==
    \/ Tick
    \/ TradeWebhookCheck
    \/ TradeWebhookPlace
    \/ MonitorBegin
    \/ MonitorStopCheck
    \/ MonitorExit
    \/ MonitorHistCheck

SpecTradeEntry == Init /\ [][NextTradeEntry]_vars

\* The monitor over positions adopted from the broker's position list: the
\* checker thread is the only writer next to the monitor.
NextAdopted ==
    \/ Tick
    \/ CheckerCheck
    \/ CheckerFetch
    \/ MonitorBegin
    \/ MonitorStopCheck
    \/ MonitorExit
    \/ MonitorHistCheck

SpecAdopted == Init /\ [][NextAdopted]_vars

\* The checker and the monitor with a shutdown signal arriving at any moment.
NextShutdown ==
    \/ Tick
    \/ HandleShutdownSignal
    \/ CheckerCheck
    \/ CheckerFetch
    \/ MonitorBegin
    \/ MonitorStopCheck
    \/ MonitorExit
    \/ MonitorHistCheck

SpecShutdown == Init /\ [][NextShutdown]_vars

\* app.py 42-107, config.py 63-71, monitor.py 26-27, 74: the process is stopped
\* and started again. Everything in memory is as at the first start (the record
\* in its initial state, the two boundary marks empty, both threads at the top
\* of their loops); the price-track row on disk is kept (init_db inserts it only
\* if it is missing); initialize_bot then looks for a position at the broker.
Restart ==
    /\ mpc' = "top"
    /\ m' = NoLocals
    /\ cpc' = "check"
    /\ pending' = 0
    /\ last5' = None
    /\ last30' = None
    /\ shutdown_requested' = FALSE
    /\ exit_calls' = 0
    /\ \/ /\ current_position' = InactivePosition
          /\ calls' = <<"positions">>
          /\ last' = Event("restart", "not_found", "none")
       \/ \E symbol \in Symbols, quantity \in BrokerQuantities, avg \in AvgPrices :
             /\ current_position' =
                   AdoptedPosition(InactivePosition, symbol, quantity,
                                   IF quantity = 0 THEN 0 ELSE avg)
             /\ calls' = <<"positions", "ltp">>
             /\ last' = Event("restart", "adopted", "none")
    /\ UNCHANGED <<track, TSL_PERCENT, now, market_open, fn, bot>>

\* The checker and the monitor of a process that may be restarted at any moment.
NextRestart ==
    \/ Tick
    \/ Restart
    \/ CheckerCheck
    \/ CheckerFetch
    \/ MonitorBegin
    \/ MonitorStopCheck
    \/ MonitorExit
    \/ MonitorHistCheck

SpecRestart == Init /\ [][NextRestart]_vars

\* The checker and the monitor while the trading session opens and closes.
NextMarket ==
    \/ Tick
    \/ MarketHours
    \/ CheckerCheck
    \/ CheckerFetch
    \/ MonitorBegin
    \/ MonitorStopCheck
    \/ MonitorExit
    \/ MonitorHistCheck

SpecMarket == Init /\ [][NextMarket]_vars

\* The exit controller called as an operation of its own (spec 4.4), at any
\* moment, next to the entries that populate the record.
ExitCall ==
    /\ \E order_ok \in BOOLEAN :
          last' = Event("exit_call",
                        IF current_position.active THEN "closed" ELSE "nothing_to_exit",
                        ExitOrder(current_position, order_ok))
    /\ ExitPosition
    /\ calls' = <<"exit_position">>
    /\ UNCHANGED <<track, TSL_PERCENT, now, last5, last30, mpc, m, pending, cpc,
                   shutdown_requested, market_open, fn, bot>>

NextExit ==
    \/ Webhook
    \/ CheckerCheck
    \/ CheckerFetch
    \/ ExitCall

SpecExit == Init /\ [][NextExit]_vars

\* ===================================================== functions on their own
\* The functions below are applied to every input of a bounded set; fn holds the
\* call: the function's name, its arguments and what it returned. A behaviour
\* is one call of resolve_sbin_future or of fetch_histogram, or a sequence of
\* saves and loads of the price track.

\* ------------------------------------------------------- symbol_resolver.py
\* A calendar of two consecutive years: year 0, which is a leap year or not and
\* whose 1 January falls on weekday jan1 (Monday is 0), and the January of
\* year 1 that a December rolls over to.
Calendars == [leap : BOOLEAN, jan1 : 0..6]

\* calendar.monthrange(year, month)[1]
DaysInMonth(cal, year, month) ==
    IF month = 2 THEN (IF year = 0 /\ cal.leap THEN 29 ELSE 28)
    ELSE IF month \in {4, 6, 9, 11} THEN 30 ELSE 31

Date(year, month, day) == [year |-> year, month |-> month, day |-> day]

\* the dates of the calendar: all of year 0 and the January of year 1
Dates(cal) ==
    {d \in [year : 0..1, month : 1..12, day : 1..31] :
        /\ d.day <= DaysInMonth(cal, d.year, d.month)
        /\ d.year = 1 => d.month = 1}

\* the days date.today() ranges over: every day of year 0
Todays(cal) == {d \in Dates(cal) : d.year = 0}

RECURSIVE DaysBeforeMonth(_, _, _)
DaysBeforeMonth(cal, year, month) ==
    IF month = 1
    THEN (IF year = 0 THEN 0 ELSE DaysBeforeMonth(cal, 0, 12) + 31)
    ELSE DaysBeforeMonth(cal, year, month - 1) + DaysInMonth(cal, year, month - 1)

\* date.toordinal(), counted from 1 January of year 0
Ordinal(cal, d) == DaysBeforeMonth(cal, d.year, d.month) + d.day - 1

\* date.fromordinal(): date + timedelta lands on the date with that ordinal
FromOrdinal(cal, n) == CHOOSE d \in Dates(cal) : Ordinal(cal, d) = n

\* date.weekday(): Monday is 0, Thursday is 3
Weekday(cal, d) == (cal.jan1 + Ordinal(cal, d)) % 7

\* lines 11-30: going back from the last day of the month, the first Thursday
RECURSIVE ThursdayFrom(_, _, _, _)
ThursdayFrom(cal, year, month, day) ==
    IF Weekday(cal, Date(year, month, day)) = 3
    THEN Date(year, month, day)
    ELSE ThursdayFrom(cal, year, month, day - 1)

GetMonthlyExpiry(cal, date_obj) ==
    ThursdayFrom(cal, date_obj.year, date_obj.month,
                 DaysInMonth(cal, date_obj.year, date_obj.month))

\* Seeded fault: the month after December is the January of the same year.
NextMonthDateSameYear(cal, today) ==
    Date(today.year, (today.month % 12) + 1, 1)

\* line 87: (today.replace(day=28) + timedelta(days=4)).replace(day=1)
NextMonthDate(cal, today) ==
    LET later == FromOrdinal(cal, Ordinal(cal, [today EXCEPT !.day = 28]) + 4)
    IN [later EXCEPT !.day = 1]

\* lines 77-92: the expiry of the contract to trade
ResolveExpiry(cal, today) ==
    LET expiry == GetMonthlyExpiry(cal, today)
    IN IF Ordinal(cal, expiry) - Ordinal(cal, today) <= 2
       THEN GetMonthlyExpiry(cal, NextMonthDate(cal, today))
       ELSE expiry

\* line 100: f"SBIN{yy}{MON}FUT", as the year and the month it names
TargetSymbol(expiry) == [yy |-> expiry.year, mon |-> expiry.month]

\* lines 77-140: resolve_sbin_future on a given day; listed says whether the
\* broker lists the target contract with at least 26 candles
ResolveSbinFuture ==
    /\ fn = NoCall
    /\ \E cal \in Calendars :
         \E today \in Todays(cal), listed \in BOOLEAN :
            LET current == GetMonthlyExpiry(cal, today)
                rolled == Ordinal(cal, current) - Ordinal(cal, today) <= 2
                expiry == ResolveExpiry(cal, today)
            IN /\ fn' = [name |-> "resolve_sbin_future", cal |-> cal,
                         today |-> today, expiry |-> expiry,
                         result |-> IF listed THEN TargetSymbol(expiry)
                                    ELSE [yy |-> None, mon |-> None]]
               /\ calls' = (IF rolled
                            THEN <<"get_monthly_expiry", "get_monthly_expiry">>
                            ELSE <<"get_monthly_expiry">>)
                           \o <<"get_sbin_symbols", "resolve_token", "historical_data">>
               /\ last' = Event("resolve_sbin_future",
                                IF listed THEN "resolved" ELSE "raised", "none")
    /\ UNCHANGED <<current_position, track, TSL_PERCENT, now, last5, last30, mpc,
                   m, pending, cpc, exit_calls, shutdown_requested, market_open,
                   bot>>

\* --------------------------------------------------------- price_tracker.py
\* the values a caller passes to save_price_track: a price, zero, or None
TrackValues == Prices \cup {0, None}

\* Seeded fault: "if high:" in place of "if high is not None:", so that a zero
\* is not written.
SavePriceTrackTruthy(row, high, low) ==
    [highest_price |-> IF high # None /\ high # 0 THEN high ELSE row.highest_price,
     lowest_price |-> IF low # None /\ low # 0 THEN low ELSE row.lowest_price]

\* lines 18-26: each column is updated only if its argument is not None
SavePriceTrack(row, high, low) ==
    [highest_price |-> IF high # None THEN high ELSE row.highest_price,
     lowest_price |-> IF low # None THEN low ELSE row.lowest_price]

\* lines 28-37: the row as a dictionary
LoadPriceTrack(row) ==
    [highest_price |-> row.highest_price, lowest_price |-> row.lowest_price]

\* save_price_track(high, low) followed by load_price_track()
SaveThenLoadPriceTrack ==
    /\ fn.name \in {"none", "save_price_track"}
    /\ \E high \in TrackValues, low \in TrackValues :
          /\ track' = SavePriceTrack(track, high, low)
          /\ fn' = [name |-> "save_price_track", high |-> high, low |-> low,
                    loaded |-> LoadPriceTrack(track')]
    /\ calls' = <<"save_price_track", "load_price_track">>
    /\ last' = Event("save_price_track", "saved", "none")
    /\ UNCHANGED <<current_position, TSL_PERCENT, now, last5, last30, mpc, m,
                   pending, cpc, exit_calls, shutdown_requested, market_open,
                   bot>>

\* -------------------------------- histogram.py 92-107, macd_indicator.py 75-141
\* The flags of one pair of consecutive histogram values, and what each entry
\* path makes of them: the gate of app.webhook and the two crossover functions
\* of macd_indicator (whose histogram is macd - signal).
HistogramFlags ==
    /\ fn = NoCall
    /\ \E prev_hist \in HistValues, hist \in HistValues :
          LET green == CrossToGreen(prev_hist, hist)
              red == CrossToRed(prev_hist, hist)
          IN fn' = [name |-> "fetch_histogram", prev_hist |-> prev_hist,
                    hist |-> hist, cross_to_green |-> green, cross_to_red |-> red,
                    long |-> FlipConfirmed("LONG", hist, green, red),
                    short |-> FlipConfirmed("SHORT", hist, green, red),
                    bullish |-> IsBullishCrossover(TRUE, prev_hist, hist),
                    bearish |-> IsBearishCrossover(TRUE, prev_hist, hist)]
    /\ calls' = <<"fetch_histogram">>
    /\ last' = Event("fetch_histogram", "ok", "none")
    /\ UNCHANGED <<current_position, track, TSL_PERCENT, now, last5, last30, mpc,
                   m, pending, cpc, exit_calls, shutdown_requested, market_open,
                   bot>>

\* ------------------ histogram.py 62-71, macd_indicator.py 86-89 and 120-123
\* the numbers of bars a history can hold, around the two thresholds
BarCounts == {0, 1, 25, 26, 34, 35}

\* Seeded fault: the test for at least 26 candles is missing.
FetchHistogramStatusNoMinimum(bars) ==
    IF bars = 0 THEN "error_no_candles" ELSE "ok"

\* histogram.py 62-71, 107: the status fetch_histogram returns for a history of
\* that many candles; the result is None unless the status is "ok"
FetchHistogramStatus(bars) ==
    IF bars = 0 THEN "error_no_candles"
    ELSE IF bars < 26 THEN "error_insufficient_data"
    ELSE "ok"

\* app.py 216-235: the webhook goes on to place_order
WebhookOrders(direction, status, hist, cross_to_green, cross_to_red) ==
    /\ status = "ok"
    /\ FlipConfirmed(direction, hist, cross_to_green, cross_to_red)

\* monitor.py 196-206: the reversal check goes on to exit_position
MonitorExits(side, status, cross_to_green, cross_to_red) ==
    /\ status = "ok"
    /\ \/ side = "LONG" /\ cross_to_red
       \/ side = "SHORT" /\ cross_to_green

\* The indicator on a history of a given length whose last two histogram values
\* are prev_hist and hist, and what the callers do with the answer: the webhook
\* and the reversal check with fetch_histogram's, trade_entry with the two
\* crossover functions'.
IndicatorOnBars ==
    /\ fn = NoCall
    /\ \E bars \in BarCounts, prev_hist \in HistValues, hist \in HistValues :
          LET status == FetchHistogramStatus(bars)
              green == status = "ok" /\ CrossToGreen(prev_hist, hist)
              red == status = "ok" /\ CrossToRed(prev_hist, hist)
              bullish == IsBullishCrossover(bars >= 35, prev_hist, hist)
              bearish == IsBearishCrossover(bars >= 35, prev_hist, hist)
          IN fn' = [name |-> "indicator_on_bars", bars |-> bars,
                    prev_hist |-> prev_hist, hist |-> hist,
                    status |-> status, has_result |-> status = "ok",
                    cross_to_green |-> green, cross_to_red |-> red,
                    bullish |-> bullish, bearish |-> bearish,
                    webhook_orders |->
                       {d \in {"LONG", "SHORT"} :
                           WebhookOrders(d, status, hist, green, red)},
                    monitor_exits |->
                       {sd \in {"LONG", "SHORT"} : MonitorExits(sd, status, green, red)},
                    trade_orders |-> bullish \/ bearish]
    /\ calls' = <<"fetch_histogram", "is_bullish_crossover", "is_bearish_crossover">>
    /\ last' = Event("indicator_on_bars", "done", "none")
    /\ UNCHANGED <<current_position, track, TSL_PERCENT, now, last5, last30, mpc,
                   m, pending, cpc, exit_calls, shutdown_requested, market_open,
                   bot>>

\* ------------------------------------------------- trading_bot.py 27-47, retry
\* the largest max_retries tried; the decorator's default is 3
MaxRetries == 3
\* what one call of the wrapped function does: raise an Exception, or return
AttemptOutcomes == {"raise", "True", "False"}

\* Seeded fault: the loop makes one attempt more than max_retries.
RetryLoopOneMore(i, max_retries, attempt) ==
    LET first == {k \in (i + 1)..(max_retries + 1) : attempt[k] # "raise"}
        k == CHOOSE x \in first : \A y \in first : x <= y
    IN IF first = {}
       THEN [returned |-> NoneStr, raised |-> FALSE,
             attempts |-> max_retries + 1, sleeps |-> max_retries + 1]
       ELSE [returned |-> attempt[k], raised |-> FALSE,
             attempts |-> k, sleeps |-> k - 1]

\* lines 35-45: for i in range(max_retries): return func(...) on success, sleep
\* and go on after an Exception; after the loop, return None. attempt[k] is what
\* the k-th call of func does; the answer records how many calls were made.
RECURSIVE RetryLoop(_, _, _)
RetryLoop(i, max_retries, attempt) ==
    IF i >= max_retries
    THEN [returned |-> NoneStr, raised |-> FALSE, attempts |-> i, sleeps |-> i]
    ELSE IF attempt[i + 1] # "raise"
    THEN [returned |-> attempt[i + 1], raised |-> FALSE,
          attempts |-> i + 1, sleeps |-> i]
    ELSE RetryLoop(i + 1, max_retries, attempt)

\* one call of a function wrapped by retry(max_retries)
RetryCall ==
    /\ fn = NoCall
    /\ \E max_retries \in 0..MaxRetries,
          attempt \in [1..(MaxRetries + 1) -> AttemptOutcomes] :
          LET r == RetryLoop(0, max_retries, attempt)
          IN fn' = [name |-> "retry", max_retries |-> max_retries,
                    attempt |-> attempt, returned |-> r.returned,
                    raised |-> r.raised, attempts |-> r.attempts,
                    sleeps |-> r.sleeps]
    /\ calls' = <<"retry">>
    /\ last' = Event("retry", "done", "none")
    /\ UNCHANGED <<current_position, track, TSL_PERCENT, now, last5, last30, mpc,
                   m, pending, cpc, exit_calls, shutdown_requested, market_open,
                   bot>>

NextFunctions ==
    \/ ResolveSbinFuture
    \/ SaveThenLoadPriceTrack
    \/ HistogramFlags
    \/ IndicatorOnBars
    \/ RetryCall

SpecFunctions == Init /\ [][NextFunctions]_vars

\* ====================================================== trading_bot.py
\* LiveTradingBot runs as a program of its own (line 325), single-threaded: its
\* current_position is that process's copy of the configuration's record.
\* Prices are whole rupees here.
Candles == {[low |-> 98, high |-> 100], [low |-> 101, high |-> 103]}
\* atr_values.iloc[-1] * TRAILING_STOP_MULTIPLIER (lines 214, 227)
TrailBand == 1
\* atr_values.iloc[-1] * ATR_MULTIPLIER (lines 283, 285)
InitialBand == 2
\* average_price of a filled order, and of a position row
FillPrices == {100}
\* quantity of the row of the futures symbol in kite.positions()['net']; 0: no
\* such row, a flat row, or the call failed
RowQuantities == {-1, 0, 1}

\* lines 180, 196, 221, 234: the ids the bot gives to simulated orders
PaperId(type, purpose) ==
    IF purpose = "entry"
    THEN IF type = "BUY" THEN "paper_trade_id_buy" ELSE "paper_trade_id_sell"
    ELSE IF type = "SELL" THEN "paper_trade_id_sell_exit" ELSE "paper_trade_id_buy_exit"

\* Seeded fault: placing the order marks the position active at once.
BotOrderActivates(b, type, purpose, ok) ==
    LET id == IF b.LIVE_MODE THEN (IF ok THEN "live_order_id" ELSE NoneStr)
              ELSE PaperId(type, purpose)
    IN [b EXCEPT !.order_id = id,
                 !.order = IF id = NoneStr THEN NoBrokerOrder
                           ELSE [type |-> type, purpose |-> purpose,
                                 status |-> IF b.LIVE_MODE THEN "OPEN" ELSE "unknown"],
                 !.current_position.active = TRUE,
                 !.placed = Append(@, [type |-> type, purpose |-> purpose,
                                       sent |-> id # NoneStr])]

\* self.order_id = self.client.place_order(...) when LIVE_MODE, else a
\* placeholder id (lines 176-181, 192-197, 217-222, 230-235).
\* kite_client.KiteClient.place_order (lines 76-101) returns the broker's order
\* id, or None when the client is missing or the call raises. As the file
\* stands its line 89 reads config.Instrument without importing config, so the
\* call raises inside the try and the answer is None; the id is the answer of a
\* build in which that name is bound. ok chooses between the two.
BotOrder(b, type, purpose, ok) ==
    LET id == IF b.LIVE_MODE THEN (IF ok THEN "live_order_id" ELSE NoneStr)
              ELSE PaperId(type, purpose)
    IN [b EXCEPT !.order_id = id,
                 !.order = IF id = NoneStr THEN NoBrokerOrder
                           ELSE [type |-> type, purpose |-> purpose,
                                 status |-> IF b.LIVE_MODE THEN "OPEN" ELSE "unknown"],
                 !.placed = Append(@, [type |-> type, purpose |-> purpose,
                                       sent |-> id # NoneStr])]

\* check_exit_conditions (lines 203-236) on the newest candle
CheckExitConditions(b, candle, ok) ==
    LET pos == b.current_position
    IN IF ~pos.active \/ b.order_id # NoneStr THEN b
       ELSE IF pos.side = "LONG"
       THEN LET eff == Max(pos.effective_sl, candle.low - TrailBand)
                b1 == [b EXCEPT !.current_position.effective_sl = eff]
            IN IF candle.low <= eff THEN BotOrder(b1, "SELL", "exit", ok) ELSE b1
       ELSE IF pos.side = "SHORT"
       THEN LET eff == Min(pos.effective_sl, candle.high + TrailBand)
                b1 == [b EXCEPT !.current_position.effective_sl = eff]
            IN IF candle.high >= eff THEN BotOrder(b1, "BUY", "exit", ok) ELSE b1
       ELSE b

\* Seeded fault: the entry check looks neither at the record nor at the
\* pending order id.
CheckEntryConditionsUnguarded(b, bullish, bearish, ok1, ok2) ==
    LET b1 == IF bullish THEN BotOrder(b, "BUY", "entry", ok1) ELSE b
    IN IF bearish THEN BotOrder(b1, "SELL", "entry", ok2) ELSE b1

\* check_entry_conditions (lines 156-201): bullish and bearish say whether the
\* divergence-and-engulfing pattern is found on the last six candles
CheckEntryConditions(b, bullish, bearish, ok1, ok2) ==
    IF b.current_position.active \/ b.order_id # NoneStr THEN b
    ELSE LET b1 == IF bullish THEN BotOrder(b, "BUY", "entry", ok1) ELSE b
         IN IF b1.order_id = NoneStr /\ bearish
            THEN BotOrder(b1, "SELL", "entry", ok2)
            ELSE b1

\* check_initial_position (lines 103-129) on a row of that quantity
InitialPosition(pos, quantity, avg_price) ==
    IF quantity = 0 THEN pos
    ELSE [pos EXCEPT !.side = IF quantity > 0 THEN "LONG" ELSE "SHORT",
                     !.active = TRUE,
                     !.quantity = IF quantity > 0 THEN quantity ELSE -quantity,
                     !.entry_price = avg_price,
                     !.initial_sl = 0,
                     !.effective_sl = 0]

BotOthersUnchanged ==
    UNCHANGED <<current_position, track, TSL_PERCENT, now, last5, last30, mpc, m,
                pending, cpc, exit_calls, shutdown_requested, market_open, fn>>

\* run(), lines 265-270: the configuration is what the import found (LIVE_MODE;
\* whether its current_position has a 'side' key, as Config.py's has and
\* config.py's has not), initialize() succeeds or run returns, then
\* check_initial_position
BotStart ==
    /\ bot.pc = "start"
    /\ \E live \in BOOLEAN, side_key \in BOOLEAN, init_ok \in BOOLEAN,
          quantity \in RowQuantities, avg \in FillPrices :
          LET b == [bot EXCEPT !.LIVE_MODE = live, !.side_key = side_key]
          IN IF ~init_ok
             THEN /\ bot' = [b EXCEPT !.pc = "returned"]
                  /\ calls' = <<"initialize">>
                  /\ last' = Event("bot_start", "init_failed", "none")
             ELSE /\ bot' = [b EXCEPT !.pc = "loop",
                                      !.current_position =
                                         InitialPosition(@, quantity, avg)]
                  /\ calls' = <<"initialize", "positions">>
                  /\ last' = Event("bot_start",
                                   IF quantity = 0 THEN "fresh" ELSE "adopted", "none")
    /\ BotOthersUnchanged

\* what a look at kite.orders() shows of the pending id: the order's status, an
\* error, or nothing (a simulated id is no order of the broker's)
StatusSeen(b) ==
    IF b.order.status = "unknown" THEN {"missing", "error"}
    ELSE {b.order.status, "error"}

\* run(), lines 277-286: the pending order was found COMPLETE
OrderFilled(b, price) ==
    LET pos == b.current_position
        updated == [pos EXCEPT !.entry_price = price, !.active = TRUE, !.initial_sl = 0]
        no_key == pos.side = NoneStr /\ ~b.side_key
        isl == IF pos.side = "LONG" THEN price - InitialBand ELSE price + InitialBand
    IN [b EXCEPT !.last_order_price = price,
                 !.order_id = NoneStr,
                 !.order = NoBrokerOrder,
                 !.pc = IF no_key THEN "crashed" ELSE "candle",
                 !.current_position =
                    IF no_key THEN updated
                    ELSE [updated EXCEPT !.initial_sl = isl, !.effective_sl = isl]]

\* run(), lines 272-292 and 320-322: the top of the loop, up to the candle logic
BotTop ==
    /\ bot.pc = "loop"
    /\ LET b == [bot EXCEPT !.placed = <<>>]
       IN IF shutdown_requested
          THEN /\ bot' = [b EXCEPT !.pc = "returned"]
               /\ calls' = <<>>
               /\ last' = Event("bot_loop", "stopped", "none")
          ELSE IF ~market_open
          THEN /\ bot' = b
               /\ calls' = <<>>
               /\ last' = Event("bot_loop", "market_closed", "none")
          ELSE IF bot.order_id = NoneStr
          THEN /\ bot' = [b EXCEPT !.pc = "candle"]
               /\ calls' = <<>>
               /\ last' = Event("bot_loop", "no_order", "none")
          ELSE /\ calls' = <<"orders">>
               /\ \E seen \in StatusSeen(bot), price \in FillPrices :
                     IF seen = "COMPLETE"
                     THEN /\ bot' = OrderFilled(b, price)
                          /\ last' = Event("bot_loop",
                                           IF bot'.pc = "crashed" THEN "crashed"
                                           ELSE "filled", "none")
                     ELSE /\ bot' = [b EXCEPT !.pc = "waiting"]
                          /\ last' = Event("bot_loop", "waiting", "none")
    /\ BotOthersUnchanged

\* run(), lines 288-292: the order is not filled; sleep ten seconds and go
\* back to the head of the loop, past the candle logic
BotWait ==
    /\ bot.pc = "waiting"
    /\ bot' = [bot EXCEPT !.pc = "loop"]
    /\ calls' = <<>>
    /\ last' = Event("bot_wait", "slept", "none")
    /\ BotOthersUnchanged

\* run(), lines 294-318: the newest candle, then the exit and the entry check
BotCandle ==
    /\ bot.pc = "candle"
    /\ \/ /\ \E outcome \in {"no_candle", "duplicate"} :
                last' = Event("bot_candle", outcome, "none")
          /\ bot' = [bot EXCEPT !.pc = "loop"]
          /\ calls' = <<"get_live_data">>
       \/ \E candle \in Candles, bullish \in BOOLEAN, bearish \in BOOLEAN,
             ok0 \in BOOLEAN, ok1 \in BOOLEAN, ok2 \in BOOLEAN :
             LET b0 == CheckExitConditions(bot, candle, ok0)
                 b1 == CheckEntryConditions(b0, bullish, bearish, ok1, ok2)
             IN /\ bot' = [b1 EXCEPT !.pc = "loop"]
                /\ calls' = IF bot.LIVE_MODE
                            THEN <<"get_live_data">> \o
                                 [i \in 1..Len(b1.placed) |-> "place_order"]
                            ELSE <<"get_live_data">>
                /\ last' = Event("bot_candle", "new_candle",
                                 IF b1.order_id # NoneStr THEN "ok"
                                 ELSE IF b1.placed # <<>> THEN "failed" ELSE "none")
    /\ BotOthersUnchanged

\* the broker settles an open order: filled, rejected or cancelled
BrokerSettles ==
    /\ bot.order.status = "OPEN"
    /\ \E status \in {"COMPLETE", "REJECTED", "CANCELLED"} :
          /\ bot' = [bot EXCEPT !.order.status = status]
          /\ last' = Event("broker", status, "none")
    /\ calls' = <<>>
    /\ BotOthersUnchanged

NextBot ==
    \/ BotStart
    \/ BotTop
    \/ BotWait
    \/ BotCandle
    \/ BrokerSettles
    \/ MarketHours
    \/ HandleShutdownSignal

SpecBot == Init /\ [][NextBot]_vars

\* the status check that finds the pending order filled and clears its id
BotFill == BotTop /\ bot.order_id # NoneStr /\ bot'.order_id = NoneStr

\* The bot on a day when the market stays open and no shutdown is asked for.
\* The loop of run() goes on by itself (its sleeps end), the broker settles
\* every order it has accepted, and kite.orders() does not fail for ever: a
\* status check that keeps being possible with the order filled eventually
\* sees it filled.
NextBotFair ==
    \/ BotStart
    \/ BotTop
    \/ BotWait
    \/ BotCandle
    \/ BrokerSettles

SpecBotFair ==
    /\ Init
    /\ [][NextBotFair]_vars
    /\ WF_vars(BotStart)
    /\ WF_vars(BotTop)
    /\ WF_vars(BotWait)
    /\ WF_vars(BotCandle)
    /\ WF_vars(BrokerSettles)
    /\ SF_vars(BotFill)

\* ================================================================= properties
\* A stop check that ran to its end: the step of MonitorStopCheck that computed
\* and wrote a stop.
StopCheckDone == last'.op = "stop_check" /\ last'.outcome \in {"hit", "held"}

\* C1: while a position is active, an entry signal arriving at the webhook is
\* turned away: no order goes to the broker and the record stays as it is, so
\* that only one position is ever open.
C1_ActiveRejectsEntry ==
    [][(current_position.active /\ last'.op = "webhook")
          => (last'.order = "none" /\ current_position' = current_position)]_vars

\* C2: ratchet. While one position stays open, the effective stop a stop check
\* writes is never below the previous effective stop for LONG and never above it
\* for SHORT, the check that triggers the exit included.
C2_Ratchet ==
    [][StopCheckDone
          => LET before == GetEffective(current_position, current_position.stop_loss)
                 after == current_position'.effective_stop_loss
             IN /\ m.side = "LONG" => after >= before
                /\ m.side = "SHORT" => after <= before]_vars

\* C3: a stop check sends the cycle to the exit exactly when the price breaches
\* the stop it has just written (price <= stop for LONG, price >= stop for
\* SHORT), so the first breaching check exits; the cycle then calls
\* exit_position and starts over, and no position sees a second exit call.
C3_ExitAtFirstBreachOnce ==
    [][/\ StopCheckDone =>
             ((mpc' = "exit") <=>
                 \/ m.side = "LONG" /\ m.ltp <= current_position'.effective_stop_loss
                 \/ m.side = "SHORT" /\ m.ltp >= current_position'.effective_stop_loss)
       /\ (mpc = "exit" /\ mpc' # "exit") =>
             (last'.op = "monitor_exit" /\ ~current_position'.active /\ mpc' = "top")
       /\ exit_calls' <= 1]_vars

\* C3 witness: a breaching stop check has sent the cycle to the exit, the exit
\* has been called once and the position is closed.
C3_Witness ==
    /\ last.op = "monitor_exit"
    /\ last.order \in {"ok", "failed"}
    /\ exit_calls = 1
    /\ ~current_position.active
    /\ mpc = "top"

\* C4: at a stop check with initial stop S, tracked high H0 (the entry price when
\* nothing is tracked yet) and price P, a LONG position gets the tracked high
\* H = max(H0, P) and the stop max(S, min(H * (1 - TSL_PERCENT), P)); SHORT gets
\* low = min(L0, P) and the stop min(S, max(low * (1 + TSL_PERCENT), P)). With
\* S = 99, TSL_PERCENT = 0.0075 and price 110 the stop is 109.175 and the
\* position is held; a later check at 109 exits.
C4_StopFormula ==
    [][StopCheckDone =>
          LET S == m.isl
              P == m.ltp
              H0 == IF track.highest_price = None THEN m.entry ELSE track.highest_price
              L0 == IF track.lowest_price = None THEN m.entry ELSE track.lowest_price
              H == IF H0 >= P THEN H0 ELSE P
              L == IF L0 <= P THEN L0 ELSE P
              trail_long == (H \div PCT_DEN) * (PCT_DEN - TSL_PERCENT)
              trail_short == (L \div PCT_DEN) * (PCT_DEN + TSL_PERCENT)
              capped_long == IF trail_long <= P THEN trail_long ELSE P
              capped_short == IF trail_short >= P THEN trail_short ELSE P
              stop == current_position'.effective_stop_loss
          IN /\ m.side = "LONG" =>
                   /\ track'.highest_price = H
                   /\ stop = IF S >= capped_long THEN S ELSE capped_long
             /\ m.side = "SHORT" =>
                   /\ track'.lowest_price = L
                   /\ stop = IF S <= capped_short THEN S ELSE capped_short
             /\ (m.side = "LONG" /\ S = 990000 /\ TSL_PERCENT = 75 /\ P = 1100000
                    /\ H0 <= 1100000) => (stop = 1091750 /\ mpc' # "exit")
             /\ (m.side = "LONG" /\ S = 990000 /\ TSL_PERCENT = 75 /\ P = 1090000
                    /\ H0 = 1100000) => mpc' = "exit"]_vars

\* C4 witness: the example's second check. The high of 110 is tracked, the
\* price is back at 109 and the check has hit.
C4_Witness ==
    /\ last.op = "stop_check"
    /\ last.outcome = "hit"
    /\ mpc = "exit"
    /\ m.side = "LONG"
    /\ m.isl = 990000
    /\ m.ltp = 1090000
    /\ TSL_PERCENT = 75
    /\ track.highest_price = 1100000
    /\ current_position.effective_stop_loss = 1090000

C7_ConfirmationGate ==
    [][\A direction \in {"LONG", "SHORT"}, price \in WebhookPrices, symbol \in Symbols,
          prev_hist \in HistValues, hist \in HistValues, order_ok \in BOOLEAN :
          WebhookSignalWith(direction, price, symbol, prev_hist, hist, order_ok)
             => LET confirmed ==
                       \/ direction = "LONG" /\ hist > 0 /\ prev_hist <= 0
                       \/ direction = "SHORT" /\ hist < 0 /\ prev_hist >= 0
                IN /\ last'.order # "none" => confirmed
                   /\ ~confirmed => /\ last'.outcome = "ignored"
                                    /\ last'.order = "none"
                                    /\ current_position' = current_position
                                    /\ track' = track]_vars

\* C7 witness: a signal was ignored at the gate while no position was open.
C7_Witness ==
    /\ last.op = "webhook"
    /\ last.outcome = "ignored"
    /\ ~current_position.active

\* C8: an active record has a symbol, a quantity > 0 and an entry price > 0,
\* whether it was opened by a signal or adopted from the broker's position list,
\* whatever net quantity the broker reports.
C8_ActiveRecordPopulated ==
    current_position.active =>
        /\ current_position.symbol # NoneStr
        /\ current_position.quantity > 0
        /\ current_position.entry_price > 0

\* C9: an inactive record holds the zero/empty values in all its trade fields,
\* and a position that opens finds nothing of a closed one: the tracked high and
\* low are unset or its own entry price.
C9_NothingLeftOfClosedPosition ==
    [][/\ ~current_position.active =>
             /\ current_position.symbol = NoneStr
             /\ current_position.side = NoneStr
             /\ current_position.entry_price = 0
             /\ current_position.quantity = 0
             /\ current_position.stop_loss = None
             /\ current_position.effective_stop_loss = None
       /\ (~current_position.active /\ current_position'.active) =>
             /\ track'.highest_price \in {None, current_position'.entry_price}
             /\ track'.lowest_price \in {None, current_position'.entry_price}]_vars

\* C10: a quote fetch that fails or returns a malformed answer ends the cycle:
\* no exit, the record, its stops and the price track unchanged, and the next
\* cycle starts at the top and fetches again.
C10_FailedQuoteChangesNothing ==
    [][(last'.op = "monitor" /\ last'.outcome \in {"ltp_failed", "ltp_malformed"})
          => /\ last'.order = "none"
             /\ current_position' = current_position
             /\ current_position'.active
             /\ track' = track
             /\ exit_calls' = exit_calls
             /\ mpc' = "top"]_vars

\* C10 witness: a quote fetch has failed for a position whose stop a check had
\* already trailed; the position is still open with that stop.
C10_Witness ==
    /\ last.op = "monitor"
    /\ last.outcome = "ltp_failed"
    /\ current_position.active
    /\ current_position.effective_stop_loss # None
    /\ current_position.effective_stop_loss # current_position.stop_loss

\* The steps of the monitor thread.
MonitorOps == {"monitor", "stop_check", "monitor_exit", "hist_check"}

\* C11: an indicator fetch that fails at the reversal check (a status other than
\* "ok", no result, an exception inside the computation) sends no closing order
\* and calls no exit; the record is as it was, the boundary is used up and the
\* loop is back at the top of its next cycle.
C11_FailedIndicatorFetchSkips ==
    [][(last'.op = "hist_check" /\ last'.outcome = "fetch_failed")
          => /\ last'.order = "none"
             /\ calls' = <<"fetch_histogram">>
             /\ current_position' = current_position
             /\ current_position'.active
             /\ exit_calls' = exit_calls
             /\ last30' = now.block \div BLOCKS_PER_30MIN
             /\ mpc' = "top"]_vars

\* C11 witness: the indicator fetch of a reversal check has failed and the
\* position is still open.
C11_Witness ==
    /\ last.op = "hist_check"
    /\ last.outcome = "fetch_failed"
    /\ current_position.active
    /\ mpc = "top"

\* C12: at a reversal check with a fetched indicator the monitor exits exactly
\* when the position it is watching is LONG and the histogram crossed to
\* negative (now < 0, before >= 0), or SHORT and it crossed to positive (now > 0,
\* before <= 0); a crossing in the position's own direction does not exit.
C12_ReversalExitIff ==
    [][last'.op = "hist_check" =>
          \A prev_hist \in HistValues, hist \in HistValues, order_ok \in BOOLEAN :
             (mpc = "hist" /\ Is30MinBoundary /\ HistFlipWith(prev_hist, hist, order_ok))
                => LET reversal ==
                          \/ m.side = "LONG" /\ hist < 0 /\ prev_hist >= 0
                          \/ m.side = "SHORT" /\ hist > 0 /\ prev_hist <= 0
                       exited == /\ last'.outcome = "flip_exit"
                                 /\ calls' = <<"fetch_histogram", "exit_position">>
                                 /\ ~current_position'.active
                       kept == /\ last'.outcome = "no_flip"
                               /\ calls' = <<"fetch_histogram">>
                               /\ current_position' = current_position
                   IN IF reversal THEN exited ELSE kept]_vars

\* C12 witness: a reversal check has exited a position on a flip.
C12_Witness ==
    /\ last.op = "hist_check"
    /\ last.outcome = "flip_exit"
    /\ last.order \in {"ok", "failed"}
    /\ ~current_position.active

\* C13: whatever fails in a cycle (the quote, the price track, the backup, the
\* indicator, the closing order), the monitor thread is alive afterwards: it is
\* at one of the points of its loop, and after a failure that ends the cycle it
\* is at the top of the next one.
C13_LoopSurvivesFailures ==
    [][/\ mpc' \in {"top", "stop", "exit", "hist"}
       /\ (/\ last'.op \in MonitorOps
           /\ \/ last'.outcome \in {"ltp_failed", "ltp_malformed", "track_failed",
                                   "fetch_failed"}
              \/ last'.order = "failed")
          => mpc' = "top"
       /\ (last'.op = "stop_check" /\ Len(calls') = 3
             /\ calls'[3] = "upload_file_failed")
          => mpc' \in {"exit", "hist"}]_vars

\* C13 witness: the price track could not be read or written at a stop check and
\* the loop is at the top of its next cycle, with the position still open.
C13_Witness ==
    /\ last.op = "stop_check"
    /\ last.outcome = "track_failed"
    /\ current_position.active
    /\ mpc = "top"

\* C14: once shutdown has been requested the monitor starts no further cycle.
C14_NoCycleAfterShutdown ==
    [][shutdown_requested => last'.op # "monitor"]_vars

\* C15: the record is one critical section. While a monitor cycle is between
\* its read of the record and its last write, no entry and no adoption writes
\* the record; the monitor does not write while an adoption or an entry is
\* between its look at the record and its write; and a stop check acts on the
\* fields of the one position the record holds.
C15_RecordIsCriticalSection ==
    [][/\ (mpc # "top" /\ last'.op \in {"webhook", "trade_place", "checker_fetch"})
          => current_position' = current_position
       /\ ((cpc = "fetch" \/ pending > 0) /\ last'.op \in MonitorOps)
          => current_position' = current_position
       /\ StopCheckDone
          => /\ m.sym = current_position.symbol
             /\ m.side = current_position.side
             /\ m.entry = current_position.entry_price
             /\ m.isl = current_position.stop_loss]_vars

\* C16: a signal whose direction is neither LONG nor SHORT is turned away with
\* no call to the symbol resolver, the indicator or the broker, and the record
\* and the price track are as they were.
C16_InvalidDirectionRejected ==
    [][(last'.op = "webhook" /\ last'.outcome = "invalid_direction")
          => /\ last'.order = "none"
             /\ calls' = <<>>
             /\ current_position' = current_position
             /\ track' = track]_vars

\* C16 witness: a signal with an unknown direction arrived while a position was
\* open and was turned away.
C16_Witness ==
    /\ last.op = "webhook"
    /\ last.outcome = "invalid_direction"
    /\ current_position.active

\* The answers of trade_entry.handle_trade_webhook that report an error.
TradeErrorOutcomes == {"symbol_failed", "token_failed", "no_history", "history_failed"}

\* C17: an entry whose instrument cannot be resolved, or whose price history
\* cannot be fetched or has too few bars, ends with an error outcome, no order
\* and the record unchanged.
C17_DataUnavailableIsError ==
    [][last'.op = "trade_place" =>
          /\ last'.outcome \in TradeErrorOutcomes
                => (last'.order = "none" /\ current_position' = current_position)
          /\ \A prev_diff \in HistValues, cur_diff \in HistValues, symbol \in Symbols,
                price \in AvgPrices, order_ok \in BOOLEAN :
                (pending > 0
                   /\ TradeSignalWith(FALSE, prev_diff, cur_diff, symbol, price, order_ok))
                => /\ last'.outcome \in TradeErrorOutcomes
                   /\ last'.order = "none"
                   /\ current_position' = current_position]_vars

\* The last Thursday of a month: a Thursday with no later day of the month a
\* week after it.
IsLastThursday(cal, d) ==
    /\ Weekday(cal, d) = 3
    /\ d.day + 7 > DaysInMonth(cal, d.year, d.month)

\* C18: on every day of the year, the contract resolved is the next calendar
\* month's (January of the next year for December) if the last Thursday of
\* today's month is at most 2 days ahead or already past, and the current
\* month's otherwise; its expiry is the last Thursday of its month and is not
\* earlier than today; and the expiry is decided before the instrument list and
\* the candles are fetched.
C18_Rollover ==
    fn.name = "resolve_sbin_future" =>
       LET cal == fn.cal
           today == fn.today
           current == CHOOSE d \in Todays(cal) :
                         d.month = today.month /\ IsLastThursday(cal, d)
           within == Ordinal(cal, current) - Ordinal(cal, today) <= 2
           isExpiry(i) == calls[i] = "get_monthly_expiry"
           isFetch(i) == calls[i] \in {"get_sbin_symbols", "resolve_token",
                                       "historical_data"}
       IN /\ within => /\ fn.expiry.month = (IF today.month = 12 THEN 1
                                             ELSE today.month + 1)
                       /\ fn.expiry.year = (IF today.month = 12 THEN today.year + 1
                                            ELSE today.year)
          /\ ~within => /\ fn.expiry.month = today.month
                        /\ fn.expiry.year = today.year
          /\ IsLastThursday(cal, fn.expiry)
          /\ Ordinal(cal, fn.expiry) >= Ordinal(cal, today)
          /\ fn.result.yy # None
                => fn.result = [yy |-> fn.expiry.year, mon |-> fn.expiry.month]
          /\ \A i \in 1..Len(calls), j \in 1..Len(calls) :
                (isExpiry(i) /\ isFetch(j)) => i < j

\* C18 witness: a day of December at most two days before the month's last
\* Thursday, or after it, resolved to the January contract of the next year.
C18_Witness ==
    /\ fn.name = "resolve_sbin_future"
    /\ fn.today.month = 12
    /\ fn.expiry = GetMonthlyExpiry(fn.cal, Date(1, 1, 1))
    /\ fn.result = [yy |-> 1, mon |-> 1]

\* C19: after save_price_track(high, low), load_price_track returns the written
\* value in every field that was written (a zero included) and, in a field
\* whose argument was None, the value stored before.
C19_PriceTrackRoundTrip ==
    [][fn'.name = "save_price_track" =>
          /\ fn'.high # None => fn'.loaded.highest_price = fn'.high
          /\ fn'.low # None => fn'.loaded.lowest_price = fn'.low
          /\ fn'.high = None => fn'.loaded.highest_price = track.highest_price
          /\ fn'.low = None => fn'.loaded.lowest_price = track.lowest_price]_vars

\* C19 witness: only the high was written, over a row that held a low, and the
\* row read back holds the new high and the old low.
C19_Witness ==
    /\ fn.name = "save_price_track"
    /\ fn.high \in Prices
    /\ fn.low = None
    /\ fn.loaded.highest_price = fn.high
    /\ fn.loaded.lowest_price \in Prices
    /\ fn.loaded.lowest_price # fn.high

\* C20: for every pair of consecutive histogram values, cross_to_green is true
\* exactly when the latest is > 0 and the previous <= 0, cross_to_red exactly
\* when the latest is < 0 and the previous >= 0; the two are never both true,
\* and neither entry path confirms both a LONG and a SHORT on the same pair.
C20_CrossFlags ==
    fn.name = "fetch_histogram" =>
       /\ fn.cross_to_green <=> (fn.hist > 0 /\ fn.prev_hist <= 0)
       /\ fn.cross_to_red <=> (fn.hist < 0 /\ fn.prev_hist >= 0)
       /\ ~(fn.cross_to_green /\ fn.cross_to_red)
       /\ ~(fn.long /\ fn.short)
       /\ fn.bullish <=> (fn.hist > 0 /\ fn.prev_hist <= 0)
       /\ fn.bearish <=> (fn.hist < 0 /\ fn.prev_hist >= 0)
       /\ ~(fn.bullish /\ fn.bearish)

\* C20 witness: the histogram went from zero to positive; the pair is a cross to
\* green, confirms a LONG and does not confirm a SHORT.
C20_Witness ==
    /\ fn.name = "fetch_histogram"
    /\ fn.prev_hist = 0
    /\ fn.hist > 0
    /\ fn.cross_to_green
    /\ fn.long
    /\ ~fn.short

\* C21: from fewer than 26 bars fetch_histogram returns an error status, no
\* result and no crossing, and neither an entry at the webhook nor a reversal
\* exit follows; from fewer than 35 closes the two crossover functions return
\* false and trade_entry places no order.
C21_NoCrossingFromTooLittleData ==
    fn.name = "indicator_on_bars" =>
       /\ fn.bars < 26 => /\ fn.status # "ok"
                          /\ ~fn.has_result
                          /\ ~fn.cross_to_green /\ ~fn.cross_to_red
                          /\ fn.webhook_orders = {}
                          /\ fn.monitor_exits = {}
       /\ fn.bars < 35 => /\ ~fn.bullish /\ ~fn.bearish
                          /\ ~fn.trade_orders

\* C21 witness: a history of 25 bars whose last two values would be a cross to
\* green was answered with an error and no crossing.
C21_Witness ==
    /\ fn.name = "indicator_on_bars"
    /\ fn.bars = 25
    /\ fn.prev_hist <= 0
    /\ fn.hist > 0
    /\ fn.status = "error_insufficient_data"
    /\ fn.webhook_orders = {}
    /\ ~fn.bullish

\* C22: a monitor cycle that starts while the trading session is closed is
\* skipped: it fetches no quote and goes no further than the top of the loop,
\* and the record, the boundaries and the exits are as they were.
C22_ClosedMarketSkipsCycle ==
    [][(~market_open /\ last'.op = "monitor")
          => /\ calls' = <<>>
             /\ mpc' = "top"
             /\ current_position' = current_position
             /\ exit_calls' = exit_calls
             /\ last5' = last5
             /\ last30' = last30]_vars

\* the backup was attempted in the step just taken and failed
UploadFailed == \E i \in 1..Len(calls') : calls'[i] = "upload_file_failed"

\* C23: a stop check whose backup upload fails goes on as with a successful
\* one: the high (low) is saved, the stop is recomputed from it and written to
\* the record, and the cycle exits exactly when the price breaches that stop.
C23_FailedUploadNotFatal ==
    [][(last'.op = "stop_check" /\ UploadFailed)
          => LET stop == IF m.side = "LONG"
                         THEN LongStop(m.isl, NewHigh(m.entry, m.ltp), m.ltp)
                         ELSE ShortStop(m.isl, NewLow(m.entry, m.ltp), m.ltp)
             IN /\ last'.outcome \in {"hit", "held"}
                /\ m.side = "LONG" => track'.highest_price = NewHigh(m.entry, m.ltp)
                /\ m.side = "SHORT" => track'.lowest_price = NewLow(m.entry, m.ltp)
                /\ current_position'.effective_stop_loss = stop
                /\ mpc' = (IF StopHit(m.side, m.ltp, stop) THEN "exit" ELSE "hist")
                /\ (last'.outcome = "hit") <=> StopHit(m.side, m.ltp, stop)]_vars

\* C23 witness: the upload of a stop check failed, the stop was written and hit,
\* and the cycle is on its way to exit_position.
C23_Witness ==
    /\ last.op = "stop_check"
    /\ last.outcome = "hit"
    /\ Len(calls) = 3
    /\ calls[3] = "upload_file_failed"
    /\ mpc = "exit"
    /\ current_position.effective_stop_loss # None

\* C24: the price track, the only state the monitor keeps on disk, changes only
\* in a stop check; there the save comes before the backup upload, the upload is
\* attempted only after a save, and both are over within the stop check, before
\* the step in which the next cycle starts and reads.
C24_SaveBeforeBackup ==
    [][/\ track' # track => /\ last'.op = "stop_check"
                            /\ \E j \in 1..Len(calls') : calls'[j] = "save_price_track"
       /\ \A i \in 1..Len(calls') :
             calls'[i] \in {"upload_file", "upload_file_failed"}
                => \E j \in 1..(i - 1) : calls'[j] = "save_price_track"
       /\ last'.op = "monitor"
             => \A i \in 1..Len(calls') :
                   calls'[i] \notin {"save_price_track", "upload_file",
                                     "upload_file_failed"}]_vars

\* C24 witness: a stop check has raised the stored high and mirrored it.
C24_Witness ==
    /\ last.op = "stop_check"
    /\ calls = <<"load_price_track", "save_price_track", "upload_file">>
    /\ track.highest_price # None
    /\ track.highest_price > current_position.entry_price

\* C25: the effective stop a stop check computed is on disk before the loop goes
\* on, so that a restart which finds the same position again has the effective
\* stop that was last computed.
C25_StopSurvivesRestart ==
    [][(/\ last'.op = "restart"
        /\ current_position.active
        /\ current_position.effective_stop_loss # None
        /\ current_position'.active
        /\ current_position'.symbol = current_position.symbol
        /\ current_position'.side = current_position.side
        /\ current_position'.entry_price = current_position.entry_price)
          => GetEffective(current_position', current_position'.stop_loss)
                = current_position.effective_stop_loss]_vars

\* C26: the stop a stop check writes is never looser than the position's
\* initial stop: not below it for a LONG, not above it for a SHORT.
C26_NeverLooserThanInitial ==
    [][StopCheckDone
          => /\ m.isl = current_position'.stop_loss
             /\ m.side = "LONG"
                   => current_position'.effective_stop_loss >= current_position'.stop_loss
             /\ m.side = "SHORT"
                   => current_position'.effective_stop_loss <= current_position'.stop_loss]_vars

\* C26 witness: a stop check of a SHORT at a price above its initial stop wrote
\* the initial stop.
C26_Witness ==
    /\ last.op = "stop_check"
    /\ last.outcome = "hit"
    /\ current_position.side = "SHORT"
    /\ m.ltp > current_position.stop_loss
    /\ current_position.effective_stop_loss = current_position.stop_loss

\* C27 as stated: the stop a stop check writes is never above the price of the
\* cycle for a LONG and never below it for a SHORT.
C27_StopNeverBeyondPrice ==
    [][StopCheckDone
          => /\ m.side = "LONG" => current_position'.effective_stop_loss <= m.ltp
             /\ m.side = "SHORT" => current_position'.effective_stop_loss >= m.ltp]_vars

\* C27 amended: the stop a stop check writes is beyond the price of the cycle
\* (above it for a LONG, below it for a SHORT) only when the price is already
\* beyond the initial stop; the stop written is then the initial stop and the
\* check is a hit. In every other case the stop is not beyond the price.
C27_StopBeyondPriceOnlyAtInitial ==
    [][StopCheckDone
          => LET stop == current_position'.effective_stop_loss
             IN /\ m.side = "LONG"
                     => /\ stop <= Max(m.ltp, m.isl)
                        /\ stop > m.ltp => (stop = m.isl /\ last'.outcome = "hit")
                /\ m.side = "SHORT"
                     => /\ stop >= Min(m.ltp, m.isl)
                        /\ stop < m.ltp => (stop = m.isl /\ last'.outcome = "hit")]_vars

\* C27 witness: a SHORT whose price is above the initial stop: the stop written
\* is the initial stop, below the price, and the cycle goes to the exit.
C27_Witness ==
    /\ last.op = "stop_check"
    /\ last.outcome = "hit"
    /\ m.side = "SHORT"
    /\ m.ltp > m.isl
    /\ current_position.effective_stop_loss = m.isl
    /\ mpc = "exit"

\* C28: the tracked high (low) a stop check uses belongs to the position it is
\* checking. In particular at the first stop check of a position of non-zero
\* quantity, when the record holds no effective stop yet, the high saved for a LONG is the larger
\* of the entry price and the price of the cycle, and the low saved for a SHORT
\* the smaller of the two: nothing recorded for an earlier position enters.
C28_TrackedExtremeOfThisPosition ==
    [][(/\ StopCheckDone
        /\ current_position.effective_stop_loss = None
        /\ current_position.quantity # 0)
          => /\ m.side = "LONG" => track'.highest_price = Max(m.entry, m.ltp)
             /\ m.side = "SHORT" => track'.lowest_price = Min(m.entry, m.ltp)]_vars

\* C29: the stop recomputation runs at most once in a 5-minute block and the
\* reversal check at most once in a 30-minute block. A check runs only inside
\* the window of a block whose mark is not yet set, and sets the mark; the
\* clock does not go back and a mark is never ahead of it, so a later cycle of
\* the same block finds the mark and does not check again.
C29_OncePerBlock ==
    [][/\ now'.block >= now.block
       /\ last5' = None \/ last5' <= now'.block
       /\ last30' = None \/ last30' <= now'.block \div BLOCKS_PER_30MIN
       /\ (last'.op = "stop_check" /\ last'.outcome # "no_boundary")
             => /\ now.window
                /\ last5 # now.block
                /\ last5' = now.block
       /\ (last'.op = "stop_check" /\ last'.outcome = "no_boundary")
             => (last5' = last5 /\ current_position' = current_position
                 /\ track' = track)
       /\ (last'.op = "hist_check" /\ last'.outcome # "no_boundary")
             => /\ now.window
                /\ now.block % BLOCKS_PER_30MIN = 0
                /\ last30 # now.block \div BLOCKS_PER_30MIN
                /\ last30' = now.block \div BLOCKS_PER_30MIN
       /\ (last'.op = "hist_check" /\ last'.outcome = "no_boundary")
             => (last30' = last30 /\ current_position' = current_position)
       /\ (last'.op = "stop_check" /\ last5 = now.block)
             => last'.outcome = "no_boundary"
       /\ (last'.op = "hist_check" /\ last30 = now.block \div BLOCKS_PER_30MIN)
             => last'.outcome = "no_boundary"]_vars

\* C29 witness: a second cycle inside the window of a block whose stop check
\* was already made has skipped the stop check.
C29_Witness ==
    /\ last.op = "stop_check"
    /\ last.outcome = "no_boundary"
    /\ now.window
    /\ last5 = now.block
    /\ current_position.active
    /\ current_position.effective_stop_loss # None

\* C30: a monitor cycle that finds no active position ends at once: no quote,
\* no boundary used, no exit, and the record and the price track as they were.
C30_IdleCycleDoesNothing ==
    [][(last'.op = "monitor" /\ ~current_position.active)
          => /\ last'.outcome = "idle"
             /\ calls' = <<>>
             /\ mpc' = "top"
             /\ last5' = last5
             /\ last30' = last30
             /\ exit_calls' = exit_calls
             /\ current_position' = current_position
             /\ track' = track]_vars

\* C30 witness: an idle cycle inside the window of a block not yet checked,
\* after a position was closed: the boundary is still unused.
C30_Witness ==
    /\ last.op = "monitor"
    /\ last.outcome = "idle"
    /\ ~current_position.active
    /\ exit_calls >= 1
    /\ now.window
    /\ last5 # now.block

\* C31: two entry requests handled concurrently while no position is active give
\* at most one broker order and one active position: no entry request places an
\* order for a record that another request has already made active.
C31_OneOrderForConcurrentEntries ==
    [][(last'.op = "trade_place" /\ last'.order = "ok") => ~current_position.active]_vars

\* C32: the position checker adopts a broker position only into an inactive
\* record: fetch_existing_position never writes over a position that is active.
C32_AdoptOnlyWhenInactive ==
    [][(last'.op = "checker_fetch" /\ last'.outcome = "adopted")
          => ~current_position.active]_vars

\* C40: a webhook request with the wrong secret leads to no symbol resolution,
\* no indicator fetch, no order and no change of the position record or of the
\* tracked prices; a request that reaches place_order is one that passed the
\* secret check.
C40_WrongSecretDoesNothing ==
    [][last'.op = "webhook" =>
          /\ last'.outcome = "unauthorized" =>
                /\ calls' = <<>>
                /\ last'.order = "none"
                /\ UNCHANGED <<current_position, track, exit_calls>>
          /\ (\E i \in 1..Len(calls') : calls'[i] = "place_order") =>
                last'.outcome \in {"success", "order_failed"}]_vars

\* a request with the wrong secret has been answered while a position is open
C40_Witness ==
    /\ last.op = "webhook"
    /\ last.outcome = "unauthorized"
    /\ current_position.active

\* C39: a call through the retry decorator ends: the wrapped function is called
\* at most max_retries times; the result of the first call that does not raise
\* is returned and no call follows it; when every attempt raises the answer is
\* None and nothing is raised.
C39_RetryTerminates ==
    fn.name = "retry" =>
        LET good == {k \in 1..fn.max_retries : fn.attempt[k] # "raise"}
        IN /\ fn.attempts <= fn.max_retries
           /\ ~fn.raised
           /\ good = {} => fn.returned = NoneStr /\ fn.attempts = fn.max_retries
           /\ good # {} =>
                 /\ fn.attempts \in good
                 /\ \A k \in good : fn.attempts <= k
                 /\ fn.returned = fn.attempt[fn.attempts]

\* three attempts allowed, the first two raise and the third returns
C39_Witness ==
    /\ fn.name = "retry"
    /\ fn.max_retries = 3
    /\ fn.attempt[1] = "raise" /\ fn.attempt[2] = "raise" /\ fn.attempt[3] = "False"
    /\ fn.attempts = 3
    /\ fn.returned = "False"

\* C33: in LiveTradingBot's loop the record turns active only in the step that
\* finds the pending order COMPLETE: the candle step, which places orders,
\* never changes 'active', and a status check that fails or sees any other
\* status leaves the record as it was. (Before the loop, check_initial_position
\* may adopt a position the broker already holds.)
C33_ActiveOnlyAfterFill ==
    [][/\ (~bot.current_position.active /\ bot'.current_position.active) =>
             \/ last'.op = "bot_start"
             \/ /\ last'.op = "bot_loop"
                /\ bot.order_id # NoneStr
                /\ bot.order.status = "COMPLETE"
                /\ bot'.order_id = NoneStr
       /\ last'.op = "bot_candle" =>
             bot'.current_position.active = bot.current_position.active
       /\ (last'.op = "bot_loop" /\ last'.outcome = "waiting") =>
             bot'.current_position = bot.current_position]_vars

\* an entry order placed with no position was found filled, and only then is
\* the record active
C33_Witness ==
    /\ last.op = "bot_loop"
    /\ last.outcome = "filled"
    /\ bot.current_position.active
    /\ bot.current_position.quantity = 0
    /\ bot.order_id = NoneStr

\* C34: LiveTradingBot has at most one order outstanding: a candle step places
\* nothing while an order id is pending, asks for no entry while the position
\* is active, never asks for both an exit and an entry, and leaves at most one
\* order behind.
C34_OneOrderOutstanding ==
    [][last'.op = "bot_candle" =>
          LET placed == bot'.placed
              asked(purpose) == \E i \in 1..Len(placed) : placed[i].purpose = purpose
          IN /\ bot.order_id # NoneStr => placed = <<>>
             /\ bot.current_position.active => ~asked("entry")
             /\ ~(asked("exit") /\ asked("entry"))
             /\ Cardinality({i \in 1..Len(placed) : placed[i].sent}) <= 1
             /\ (bot'.order_id # NoneStr) =
                   (\E i \in 1..Len(placed) : placed[i].sent)]_vars

\* the trailing stop of a LONG position was hit on this candle: the closing
\* order is the only order the candle produced, and it is now pending
C34_Witness ==
    /\ last.op = "bot_candle"
    /\ bot.placed = <<[type |-> "SELL", purpose |-> "exit", sent |-> TRUE]>>
    /\ bot.order_id # NoneStr
    /\ bot.current_position.active

C37_StopTightensAndAdoptedNotClosed ==
    [][(/\ last'.op = "bot_candle"
        /\ bot.current_position.active
        /\ bot.current_position.side \in {"LONG", "SHORT"})
          => /\ bot.current_position.side = "LONG" =>
                   bot'.current_position.effective_sl >= bot.current_position.effective_sl
             /\ bot.current_position.side = "SHORT" =>
                   bot'.current_position.effective_sl <= bot.current_position.effective_sl
             /\ (\E i \in 1..Len(bot'.placed) : bot'.placed[i].purpose = "exit") =>
                   bot'.current_position.effective_sl # 0]_vars

\* C38: with the market open and the loop scheduled fairly, a pending order id
\* is eventually cleared, so that candle processing resumes: for live orders
\* the broker completes, rejects or cancels, and for simulated orders.
C38_PendingOrderCleared ==
    (bot.order_id # NoneStr) ~> (bot.order_id = NoneStr)
====
